---- MODULE Spec2Model ----
(***************************************************************************)
(* ripple-keypairs: deterministic key derivation, signing and verification *)
(* for the two ledger algorithms (secp256k1, ed25519).                     *)
(*                                                                         *)
(* Scaling.  The arithmetic of the program is 256 bits wide; the model     *)
(* keeps every algorithm and every byte layout of the source and scales    *)
(* the widths: the hash yields 8 bits where the source takes the first 256 *)
(* bits of SHA-512, the curve is the cyclic group of prime order 251 (the  *)
(* largest prime below 2^8, as the secp256k1 order is a prime just below   *)
(* 2^256), a point is written by its discrete logarithm, and the 2^32      *)
(* counter space of deriveScalar is 2^8.  Byte strings keep the source's   *)
(* lengths (16, 32, 33, 64): a scaled number fills the last byte of its    *)
(* field and the bytes before it are zero.                                 *)
(*                                                                         *)
(* The repository holds the secp256k1 key pair in three revisions, which   *)
(* differ in behaviour; `linked` says which one ./secp256k1 resolves to.   *)
(***************************************************************************)
EXTENDS Integers, Sequences, FiniteSets, TLC

\* ------------------------------------------------------------------ bounds
MaxSeed == 1
MaxMsg == 1
MaxScalarByte == 40

\* ------------------------------------------------------- program constants
CurveOrder == 251
HashSpace == 256
CounterMax == 255
SeedLen == 16
ScalarLen == 32
KeyLen == 33
EdSigLen == 64
EdPrefix == 237
AccountIdLen == 20
DerTag == 48
StackLimit == 3

\* ----------------------------------------------------------------- values
\* `undefined`: no byte string holds a negative number.
Undef == <<-1>>
NoDiscrim == -1

Ok(x) == [ok |-> TRUE, v |-> x]
Fail == [ok |-> FALSE, v |-> <<>>]

Zeros(n) == [i \in 1..n |-> 0]

\* bn.js toArray('be', n) of a number below 256.
toArray(k, n) == Zeros(n - 1) \o <<k>>

\* The element of a singleton.  {F(x) : x \in {e}} computes e once and F on
\* its value, where F(e) would compute e wherever F mentions its argument.
TheOne(S) == CHOOSE x \in S : TRUE

\* base^k modulo m, by squaring.
RECURSIVE PowMod(_, _, _)
PowMod(base, k, m) ==
  IF k = 0 THEN 1 % m
  ELSE IF k % 2 = 1 THEN (base * PowMod(base, k - 1, m)) % m
  ELSE TheOne({ (x * x) % m : x \in {PowMod(base, k \div 2, m)} })

\* The big-endian value of the bytes lo..hi of a byte string, modulo m.
RECURSIVE BNrange(_, _, _, _)
BNrange(b, lo, hi, m) ==
  IF lo > hi THEN 0
  ELSE IF lo = hi THEN b[lo] % m
  ELSE (BNrange(b, lo, (lo + hi) \div 2, m) * PowMod(256, hi - (lo + hi) \div 2, m)
        + BNrange(b, (lo + hi) \div 2 + 1, hi, m)) % m

\* new BN(bytes).umod(m): the big-endian value of a byte string, modulo m.
BNmod(b, m) == BNrange(b, 1, Len(b), m)

IsBytes(b) == \A i \in 1..Len(b) : b[i] \in 0..255

\* ------------------------------------------------- hash-chain primitive
\* SHA-512 scaled to 8 bits: a chained compression of one byte at a time.
\* The bytes lo..hi of b absorbed into the state h, by halves.
RECURSIVE AbsorbRange(_, _, _, _)
AbsorbRange(h, b, lo, hi) ==
  IF lo > hi THEN h
  ELSE IF lo = hi THEN (5 * h + b[lo] + 3) % HashSpace
  ELSE TheOne({ AbsorbRange(x, b, (lo + hi) \div 2 + 1, hi) :
                x \in {AbsorbRange(h, b, lo, (lo + hi) \div 2)} })

Absorb(h, b) == AbsorbRange(h, b, 1, Len(b))

Digest(bytes) == TheOne({Absorb(106, b) : b \in {bytes}})

U32(i) == << (i \div 16777216) % 256, (i \div 65536) % 256,
             (i \div 256) % 256, i % 256 >>

\* class Sha512: a fresh accumulator, add, addU32, first256, first256BN.
\* add(undefined) hashes nothing, as hash.js turns a missing message into [].
Sha512New == <<>>
add(hasher, bytes) == hasher \o (IF bytes = Undef THEN <<>> ELSE bytes)
addU32(hasher, i) == hasher \o U32(i)
first256(hasher) == toArray(Digest(hasher), ScalarLen)
first256BN(hasher) == Digest(hasher)

\* hashjs.sha512().update(x).digest().slice(0, n)
sha512Slice(x, n) == toArray(Digest(x), n)

\* ------------------------------------------------------- curve library
\* elliptic's secp256k1: g.mul, point add, encodeCompressed, decodePoint.
gMul(k) == k % CurveOrder
pointAdd(P, Q) == (P + Q) % CurveOrder

\* The point at infinity (0) has no coordinates: encoding it raises.
encodeCompressed(P) ==
  IF P = 0 THEN Fail
  ELSE Ok(<<2 + (P % 2)>> \o toArray(P \div 2, ScalarLen))

\* 'Unknown point format' / 'invalid point' raise.
decodePoint(b) ==
  IF /\ Len(b) = KeyLen
     /\ b[1] \in {2, 3}
     /\ \A i \in 2..(KeyLen - 1) : b[i] = 0
     /\ b[KeyLen] \in 0..255
     /\ 2 * b[KeyLen] + (b[1] - 2) \in 1..(CurveOrder - 1)
  THEN Ok(2 * b[KeyLen] + (b[1] - 2))
  ELSE Fail

\* ---------------------------------------------------- scalar derivation
InRangeMutant(key) == key >= 0

\* key.cmpn(0) > 0 && key.cmp(order) < 0
InRange(key) == key > 0 /\ key < CurveOrder

\* The discriminator tested for truthiness: a discriminator 0 is skipped.
CandidateMutant(bytes, discrim, i) ==
  LET h0 == add(Sha512New, bytes)
      h1 == IF discrim \notin {NoDiscrim, 0} THEN addU32(h0, discrim) ELSE h0
  IN  first256BN(addU32(h1, i))

Candidate(bytes, discrim, i) ==
  LET h0 == add(Sha512New, bytes)
      h1 == IF discrim # NoDiscrim THEN addU32(h0, discrim) ELSE h0
  IN  first256BN(addU32(h1, i))

RECURSIVE deriveScalarFrom(_, _, _)
deriveScalarFrom(bytes, discrim, i) ==
  IF i > CounterMax THEN Fail
  ELSE TheOne({ IF InRange(key) THEN Ok(key)
                ELSE deriveScalarFrom(bytes, discrim, i + 1) :
                key \in {Candidate(bytes, discrim, i)} })

deriveScalar(bytes, discrim) == deriveScalarFrom(bytes, discrim, 0)

\* The counter at which deriveScalar returns (CounterMax + 1 when it throws).
RECURSIVE attemptsFrom(_, _, _)
attemptsFrom(bytes, discrim, i) ==
  IF i > CounterMax \/ InRange(Candidate(bytes, discrim, i)) THEN i
  ELSE attemptsFrom(bytes, discrim, i + 1)

\* deriveScalar(publicGen.encodeCompressed(), accountIndex)
\*   .add(privateGen).mod(order), with accountIndex = opts.accountIndex || 0
accountScalar(privateGen, accountIndex) ==
  TheOne({ IF ~enc.ok THEN Fail
           ELSE TheOne({ IF ~off.ok THEN Fail
                         ELSE Ok((off.v + privateGen) % CurveOrder) :
                         off \in {deriveScalar(enc.v, IF accountIndex = NoDiscrim
                                                      THEN 0 ELSE accountIndex)} }) :
           enc \in {encodeCompressed(gMul(privateGen))} })

deriveSecretMutant(seed, root, accountIndex) == deriveScalar(seed, NoDiscrim)

\* deriveSecret with the account index dropped: every account is account 0.
deriveSecretIndexMutant(seed, root, accountIndex) ==
  TheOne({ IF ~privateGen.ok THEN Fail
           ELSE IF root THEN privateGen
           ELSE accountScalar(privateGen.v, 0) :
           privateGen \in {deriveScalar(seed, NoDiscrim)} })

\* opts.validator is `root`; accountIndex is NoDiscrim when opts has none.
deriveSecret(seed, root, accountIndex) ==
  TheOne({ IF ~privateGen.ok THEN Fail
           ELSE IF root THEN privateGen
           ELSE accountScalar(privateGen.v, accountIndex) :
           privateGen \in {deriveScalar(seed, NoDiscrim)} })

accountPublicFromPublicGeneratorMutant(publicGenBytes) ==
  TheOne({ IF ~rootPubPoint.ok \/ ~scalar.ok THEN Fail
           ELSE encodeCompressed(pointAdd(rootPubPoint.v, gMul(scalar.v))) :
           rootPubPoint \in {decodePoint(publicGenBytes)},
           scalar \in {deriveScalar(publicGenBytes, NoDiscrim)} })

accountPublicFromPublicGenerator(publicGenBytes) ==
  TheOne({ IF ~rootPubPoint.ok \/ ~scalar.ok THEN Fail
           ELSE encodeCompressed(pointAdd(rootPubPoint.v, gMul(scalar.v))) :
           rootPubPoint \in {decodePoint(publicGenBytes)},
           scalar \in {deriveScalar(publicGenBytes, 0)} })

\* ------------------------------------------------------ text and bytes
\* A JavaScript value that is a string or an array of bytes.  The characters
\* of a string are hex digits (0..15) or the letters below.
Str(d) == [d |-> d, str |-> TRUE]
Arr(d) == [d |-> d, str |-> FALSE]
CharN == 110
CharR == 114
CharS == 115

hexDigits(a) ==
  [i \in 1..(2 * Len(a)) |-> IF i % 2 = 1 THEN a[(i + 1) \div 2] \div 16
                                           ELSE a[i \div 2] % 16]

bytesToHexSeq(a) == TheOne({hexDigits(b) : b \in {a}})

\* utils.bytesToHex: two upper-case hex digits for every byte.
bytesToHex(a) == Str(bytesToHexSeq(a))

pairsOf(t) == [i \in 1..(Len(t) \div 2) |-> 16 * t[2 * i - 1] + t[2 * i]]

hexPairs(t) == TheOne({pairsOf(u) : u \in {t}})

\* utils.hexToBytes: assert(a.length % 2 === 0), then the bytes of the
\* number, padded to a.length / 2.  An array of odd length fails the assert;
\* of an array of even length bn.js makes a.length / 2 bytes of the number
\* and raises when the number is longer than that.
hexToBytes(a) ==
  IF Len(a.d) % 2 # 0 THEN Fail
  ELSE IF a.str THEN Ok(hexPairs(a.d))
  ELSE IF \A i \in 1..(Len(a.d) \div 2) : a.d[i] = 0
       THEN Ok(SubSeq(a.d, Len(a.d) \div 2 + 1, Len(a.d)))
       ELSE Fail

\* elliptic utils.parseBytes: a string is read as hex, an odd number of
\* digits is padded with a leading zero; an array is returned as it is.
parseBytes(x) ==
  IF x.str THEN hexPairs(IF Len(x.d) % 2 = 1 THEN <<0>> \o x.d ELSE x.d)
  ELSE x.d

\* ------------------------------------------------------- address codec
\* ripple-address-codec: a leading letter, the payload and a check digit.
Checksum(payload) == Digest(payload) % 16

encode(letter, tag, payload) ==
  Str(<<letter>> \o tag \o bytesToHexSeq(payload) \o <<Checksum(tag \o payload)>>)

\* The payload of a string of the codec, or a decode error.
decode(x, letter, tagLen, payloadLen) ==
  LET n == 1 + tagLen + 2 * payloadLen + 1 IN
  IF /\ x.str
     /\ Len(x.d) = n
     /\ x.d[1] = letter
     /\ \A i \in 2..n : x.d[i] \in 0..15
     /\ x.d[n] = Checksum(SubSeq(x.d, 2, 1 + tagLen)
                          \o hexPairs(SubSeq(x.d, 2 + tagLen, n - 1)))
  THEN Ok(hexPairs(SubSeq(x.d, 2 + tagLen, n - 1)))
  ELSE Fail

SeedTag(type) == IF type = "ed25519" THEN <<14>> ELSE <<0>>

encodeSeed(bytes, type) == encode(CharS, SeedTag(type), bytes)

decodeSeed(x) ==
  TheOne({ IF ~b.ok \/ x.d[2] \notin {0, 14}
           THEN [ok |-> FALSE, bytes |-> <<>>, type |-> ""]
           ELSE [ok |-> TRUE, bytes |-> b.v,
                 type |-> IF x.d[2] = 14 THEN "ed25519" ELSE "secp256k1"] :
           b \in {decode(x, CharS, 1, SeedLen)} })

encodeNodePublic(bytes) == encode(CharN, <<>>, bytes)
decodeNodePublic(x) == decode(x, CharN, 0, KeyLen)
encodeAccountID(bytes) == encode(CharR, <<>>, bytes)
decodeAccountID(x) == decode(x, CharR, 0, AccountIdLen)

\* ------------------------------------------------------------- utils.js
\* ripemd160(sha256(publicBytes))
deriveAccountIDBytes(publicBytes) ==
  TheOne({toArray(Absorb(17, toArray(Absorb(29, b), ScalarLen)), AccountIdLen) :
          b \in {publicBytes}})

seedFromPhrase(phrase) == sha512Slice(phrase, SeedLen)

parsePublicKey(publicKey) ==
  IF publicKey.str /\ Len(publicKey.d) > 0 /\ publicKey.d[1] = CharN
  THEN decodeNodePublic(publicKey)
  ELSE Ok(parseBytes(publicKey))

\* type is the default 'secp256k1' when the caller passes none ("").
parseSeed(seed, type) ==
  IF ~seed.str
  THEN [ok |-> TRUE, bytes |-> seed.d,
        type |-> IF type = "" THEN "secp256k1" ELSE type]
  ELSE decodeSeed(seed)

\* bytes.length === 33 && bytes[0] === 0xED ? 'ed25519' : 'secp256k1'
Sniff(bytes) ==
  IF Len(bytes) = KeyLen /\ bytes[1] = EdPrefix THEN "ed25519" ELSE "secp256k1"

parseKey(key) ==
  TheOne({ IF ~bytes.ok THEN [ok |-> FALSE, type |-> "", bytes |-> <<>>]
           ELSE [ok |-> TRUE, type |-> Sniff(bytes.v), bytes |-> bytes.v] :
           bytes \in {parsePublicKey(key)} })

\* api.getAlgorithmFromKey
getAlgorithmFromKey(key) ==
  TheOne({ IF ~bytes.ok THEN [ok |-> FALSE, type |-> ""]
           ELSE [ok |-> TRUE,
                 type |-> IF Len(bytes.v) = KeyLen /\ bytes.v[1] = EdPrefix
                          THEN "ed25519" ELSE "secp256k1"] :
           bytes \in {hexToBytes(key)} })

\* ------------------------------------------------- signature libraries
\* A key of elliptic: priv is -1 without private material; pub is the point,
\* -1 when the encoding `enc` it came from does not decode.
NoKey == [set |-> FALSE, priv |-> -1, pub |-> -1, enc |-> <<>>]
Key(priv, pub, enc) == [set |-> TRUE, priv |-> priv, pub |-> pub, enc |-> enc]

\* secp256k1.keyFromPrivate: the number modulo the order; getPublic is g.mul.
ecKeyFromPrivate(num) == Key(num % CurveOrder, gMul(num), <<>>)

\* secp256k1.keyFromPublic decodes the point at once.
ecKeyFromPublic(bytes) ==
  TheOne({ IF P.ok THEN Ok(Key(-1, P.v, bytes)) ELSE Fail : P \in {decodePoint(bytes)} })

\* key.sign(digest, {canonical: true}).toDER(): the signature of a signer
\* over a digest; it is a function of the two (RFC 6979).
ecSign(key, digest) ==
  IF key.priv = -1 THEN Fail ELSE Ok(<<DerTag, key.pub>> \o digest)

\* key.verify(digest, signature): `new Signature(signature, 'hex')` raises
\* on bytes that are not DER; a parsed signature verifies or does not.
ecVerify(key, digest, sig) ==
  IF Len(sig) # 2 + ScalarLen \/ sig[1] # DerTag THEN Fail
  ELSE Ok(sig[2] = key.pub /\ SubSeq(sig, 3, Len(sig)) = digest)

EdPoint(secret) == Digest(secret) % CurveOrder

EdDecodes(b) ==
  /\ Len(b) = ScalarLen
  /\ \A i \in 1..(ScalarLen - 1) : b[i] = 0
  /\ b[ScalarLen] \in 0..(CurveOrder - 1)

\* Ed25519.keyFromSecret / keyFromPublic (the point is decoded when used).
edKeyFromSecret(secret) ==
  Key(Digest(secret), EdPoint(secret), toArray(EdPoint(secret), ScalarLen))

edKeyFromPublic(bytes) ==
  Key(-1, IF EdDecodes(bytes) THEN bytes[ScalarLen] ELSE -1, bytes)

edPubBytes(key) == key.enc

EmbedMsg(m) == <<Len(m)>> \o m \o Zeros(ScalarLen - 1 - Len(m))

\* key.sign(message).toBytes(): R and S, 64 bytes, over the whole message.
edSign(key, message) ==
  IF key.priv = -1 THEN Fail
  ELSE Ok(toArray(key.pub, ScalarLen) \o EmbedMsg(message))

\* key.verify(message, sig) raises on a signature of the wrong size, on an
\* R that is no point, and on a public key that is no point.
edVerify(key, message, sig) ==
  IF \/ Len(sig) # EdSigLen
     \/ key.pub = -1
     \/ ~EdDecodes(SubSeq(sig, 1, ScalarLen))
  THEN Fail
  ELSE Ok(/\ sig[ScalarLen] = key.pub
          /\ SubSeq(sig, ScalarLen + 1, EdSigLen) = EmbedMsg(message))

\* ------------------------------------------------------------ key pairs
\* Revisions of ./secp256k1 (with the ./keypair each one is written for):
\*   "class"  src/src/secp256k1.js and src/src/keypair.js
\*   "ext"    src/unnamed/part_003 (extendClass, `validator`)
\*   "node"   src/unnamed/part_002 lines 132-310 and src/unnamed/part_005
Revisions == {"class", "ext", "node"}

\* Reading a property an object does not have yields undefined.
Get(o, f) == IF f \in DOMAIN o THEN o[f] ELSE Undef
Truthy(o, f) == f \in DOMAIN o /\ o[f] = TRUE

\* new K256Pair(options) / new Ed25519Pair(options): the properties the
\* constructors assign.  Memo slots start undefined.
KeyPairBase(type, seedBytes, publicBytes, privateBytes) ==
  [type |-> type, _seedBytes |-> seedBytes, _publicBytes |-> publicBytes,
   _privateBytes |-> privateBytes, _key |-> NoKey]

NewPair(rev, type, seedBytes, publicBytes, privateBytes, validator, node) ==
  LET base == KeyPairBase(type, seedBytes, publicBytes, privateBytes)
      withNode == IF rev = "node"
                  THEN base @@ [is_node_key |-> node] ELSE base
  IN  IF type = "secp256k1" /\ rev = "class"
        THEN withNode @@ [validator |-> validator, _pubKeyCanonicalBytes |-> Undef]
      ELSE IF type = "secp256k1" /\ rev = "ext"
        THEN withNode @@ [validator |-> validator]
      ELSE withNode

Ret(p, r) == [p |-> p, r |-> r]

\* KeyPair.hasPrivateKey: this._privateBytes || this._seedBytes
hasPrivateKey(p) == p._privateBytes # Undef \/ p._seedBytes # Undef

\* A wrapper that keeps the value of every cached byte accessor under one key.
MemoMutant(p, slot, r) ==
  IF r.ok
  THEN Ret([p EXCEPT ![IF slot = "_key" THEN slot ELSE "_privateBytes"] = r.v], r)
  ELSE Ret(p, Fail)

\* The wrapper of a cached method: the value it computed goes to the slot
\* and is returned; a computation that raises leaves the slot as it was.
\* On an object marked `recomputes` nothing is stored: that is the pair
\* without memoization the key pairs are compared with, which no factory
\* builds.
Memo(p, slot, r) ==
  IF ~r.ok THEN Ret(p, Fail)
  ELSE IF Truthy(p, "recomputes") THEN Ret(p, r)
  ELSE Ret([p EXCEPT ![slot] = r.v], r)

\* ---- K256Pair, revision "class"
RECURSIVE keyClass(_, _)
RECURSIVE pubKeyCanonicalBytes(_, _)

\* key() reads this.seedBytes; a call deeper than the stack raises.
keyClass(p, depth) ==
  IF p._key.set THEN Ret(p, Ok(p._key))
  ELSE IF depth > StackLimit THEN Ret(p, Fail)
  ELSE IF Get(p, "seedBytes") # Undef
    THEN TheOne({ IF ~s.ok THEN Ret(p, Fail)
                  ELSE Memo(p, "_key", Ok(ecKeyFromPrivate(s.v))) :
                  s \in {deriveSecret(Get(p, "seedBytes"),
                                      Truthy(p, "validator"), NoDiscrim)} })
    ELSE TheOne({ IF ~b.r.ok THEN Ret(b.p, Fail)
                  ELSE Memo(b.p, "_key", ecKeyFromPublic(b.r.v)) :
                  b \in {pubKeyCanonicalBytes(p, depth + 1)} })

pubKeyCanonicalBytes(p, depth) ==
  IF p._pubKeyCanonicalBytes # Undef THEN Ret(p, Ok(p._pubKeyCanonicalBytes))
  ELSE IF depth > StackLimit THEN Ret(p, Fail)
  ELSE TheOne({ IF ~k.r.ok THEN Ret(k.p, Fail)
                ELSE Memo(k.p, "_pubKeyCanonicalBytes", encodeCompressed(k.r.v.pub)) :
                k \in {keyClass(p, depth + 1)} })

\* hashjs.sha512().update(message).digest().slice(0, 32), and in the other
\* revisions new Sha512().add(message).first256().
hashMessage(message) == first256(add(Sha512New, message))

\* sign(message): this._createSignature(message).toDER()
signClass(p, message) ==
  TheOne({ IF ~k.r.ok THEN Ret(k.p, Fail)
           ELSE Ret(k.p, ecSign(k.r.v, hashMessage(message))) :
           k \in {keyClass(p, 0)} })

\* The try block: this.key().verify(this.hashMessage(message), signature)
verifyClassTry(p, message, signature) ==
  TheOne({ IF ~k.r.ok THEN Ret(k.p, Fail)
           ELSE Ret(k.p, ecVerify(k.r.v, hashMessage(message), signature)) :
           k \in {keyClass(p, 0)} })

\* verify(message, signature) { try { ... } catch (e) { return false; } }
verifyClass(p, message, signature) ==
  TheOne({ IF t.r.ok THEN t ELSE Ret(t.p, Ok(FALSE)) :
           t \in {verifyClassTry(p, message, signature)} })

\* ---- K256Pair, revisions "ext" and "node"
RootFlag(p, rev) ==
  IF rev = "node" THEN Truthy(p, "is_node_key") ELSE Truthy(p, "validator")

\* derivePrivate of part_003 and of part_002 is deriveSecret, line for line.
derivePrivate(seed, root, accountIndex) == deriveSecret(seed, root, accountIndex)

\* _private(): this._privateBytes || derivePrivate(this._seedBytes, ...),
\* as the number elliptic reads it as.
private(p, rev) ==
  IF p._privateBytes # Undef THEN Ok(BNmod(p._privateBytes, CurveOrder))
  ELSE derivePrivate(p._seedBytes, RootFlag(p, rev), NoDiscrim)

RECURSIVE keyExt(_, _, _)
RECURSIVE publicBytesExt(_, _, _)

keyExt(p, rev, depth) ==
  IF p._key.set THEN Ret(p, Ok(p._key))
  ELSE IF depth > StackLimit THEN Ret(p, Fail)
  ELSE IF hasPrivateKey(p)
    THEN TheOne({ IF ~s.ok THEN Ret(p, Fail)
                  ELSE Memo(p, "_key", Ok(ecKeyFromPrivate(s.v))) :
                  s \in {private(p, rev)} })
    ELSE TheOne({ IF ~b.r.ok THEN Ret(b.p, Fail)
                  ELSE Memo(b.p, "_key", ecKeyFromPublic(b.r.v)) :
                  b \in {publicBytesExt(p, rev, depth + 1)} })

publicBytesExt(p, rev, depth) ==
  IF p._publicBytes # Undef THEN Ret(p, Ok(p._publicBytes))
  ELSE IF depth > StackLimit THEN Ret(p, Fail)
  ELSE TheOne({ IF ~k.r.ok THEN Ret(k.p, Fail)
                ELSE Memo(k.p, "_publicBytes", encodeCompressed(k.r.v.pub)) :
                k \in {keyExt(p, rev, depth + 1)} })

\* privateBytes(): this._private().toArray('be', 32), memoized in the slot
\* _privateBytes, which is also where the constructor puts privateBytes.
privateBytesExt(p, rev) ==
  IF p._privateBytes # Undef THEN Ret(p, Ok(p._privateBytes))
  ELSE TheOne({ IF ~s.ok THEN Ret(p, Fail)
                ELSE Memo(p, "_privateBytes", Ok(toArray(s.v, ScalarLen))) :
                s \in {private(p, rev)} })

\* sign(message) on the elliptic path (part_003 has no other; signNode
\* below adds the native path of part_002).
signExt(p, rev, message) ==
  TheOne({ IF ~k.r.ok THEN Ret(k.p, Fail)
           ELSE Ret(k.p, ecSign(k.r.v, hashMessage(message))) :
           k \in {keyExt(p, rev, 0)} })

\* The try block: this.key().verify(this.hashMessage(message), signature)
verifyExtTry(p, rev, signature, message) ==
  TheOne({ IF ~k.r.ok THEN Ret(k.p, Fail)
           ELSE Ret(k.p, ecVerify(k.r.v, hashMessage(message), signature)) :
           k \in {keyExt(p, rev, 0)} })

verifyExtMutant(p, rev, signature, message) == verifyExtTry(p, rev, signature, message)

\* verify(signature, message) { try { ... } catch (e) { return false; } }
verifyExt(p, rev, signature, message) ==
  TheOne({ IF t.r.ok THEN t ELSE Ret(t.p, Ok(FALSE)) :
           t \in {verifyExtTry(p, rev, signature, message)} })

\* ---- K256Pair, revision "node": the native library
\* speedup(): false unless USE_SECP256K1_SPEEDUP is 'true', and false when
\* require('secp256k1') raises.  The environment does not change while a
\* pair lives, so the slot _speedup always holds what speedup() computes
\* and is not kept; nor are the Buffer copies of _privateBuffer and
\* _publicBuffer.
speedup(e) == e = "on"

\* secp256k1.sign(hash, privateKey, true) and secp256k1.verify(hash,
\* signature, publicKey) of the native module: the same deterministic
\* low-S DER signature and the same verdict as elliptic gives on the key
\* the buffer encodes; a buffer that is no key raises.
nativeSign(hash, privateBuffer) ==
  ecSign(ecKeyFromPrivate(BNmod(privateBuffer, CurveOrder)), hash)

nativeVerify(hash, signature, publicBuffer) ==
  TheOne({ IF ~k.ok THEN Fail ELSE ecVerify(k.v, hash, signature) :
           k \in {ecKeyFromPublic(publicBuffer)} })

\* sign(message) of part_002: speedup.sign(hash, this.privateBuffer(), true)
\* when speedup() is truthy, else this._createSignature(message).toDER()
signNode(p, e, message) ==
  IF ~speedup(e) THEN signExt(p, "node", message)
  ELSE TheOne({ IF ~b.r.ok THEN Ret(b.p, Fail)
                ELSE Ret(b.p, nativeSign(hashMessage(message), b.r.v)) :
                b \in {privateBytesExt(p, "node")} })

\* verify(signature, message) of part_002: the whole body is in the try
verifyNodeTry(p, e, signature, message) ==
  IF ~speedup(e) THEN verifyExtTry(p, "node", signature, message)
  ELSE TheOne({ IF ~b.r.ok THEN Ret(b.p, Fail)
                ELSE Ret(b.p, nativeVerify(hashMessage(message), signature, b.r.v)) :
                b \in {publicBytesExt(p, "node", 0)} })

verifyNode(p, e, signature, message) ==
  TheOne({ IF t.r.ok THEN t ELSE Ret(t.p, Ok(FALSE)) :
           t \in {verifyNodeTry(p, e, signature, message)} })

\* ---- Ed25519Pair
\* Array.prototype.slice(1)
slice1(b) == IF b = <<>> THEN <<>> ELSE Tail(b)

deriveEdKeyPairPrivate(seed) == first256(add(Sha512New, seed))

\* _privateKeySigningBytes()
privateKeySigningBytes(p) ==
  IF p._privateBytes # Undef THEN slice1(p._privateBytes)
  ELSE deriveEdKeyPairPrivate(p._seedBytes)

RECURSIVE keyEd(_, _)
RECURSIVE publicBytesEd(_, _)

keyEd(p, depth) ==
  IF p._key.set THEN Ret(p, Ok(p._key))
  ELSE IF depth > StackLimit THEN Ret(p, Fail)
  ELSE IF hasPrivateKey(p)
    THEN Memo(p, "_key", Ok(edKeyFromSecret(privateKeySigningBytes(p))))
    ELSE TheOne({ IF ~b.r.ok THEN Ret(b.p, Fail)
                  ELSE Memo(b.p, "_key", Ok(edKeyFromPublic(slice1(b.r.v)))) :
                  b \in {publicBytesEd(p, depth + 1)} })

publicBytesEd(p, depth) ==
  IF p._publicBytes # Undef THEN Ret(p, Ok(p._publicBytes))
  ELSE IF depth > StackLimit THEN Ret(p, Fail)
  ELSE TheOne({ IF ~k.r.ok THEN Ret(k.p, Fail)
                ELSE Memo(k.p, "_publicBytes", Ok(<<EdPrefix>> \o edPubBytes(k.r.v))) :
                k \in {keyEd(p, depth + 1)} })

privateBytesEd(p) ==
  IF p._privateBytes # Undef THEN Ret(p, Ok(p._privateBytes))
  ELSE Memo(p, "_privateBytes", Ok(<<EdPrefix>> \o privateKeySigningBytes(p)))

signEd(p, message) ==
  TheOne({ IF ~k.r.ok THEN Ret(k.p, Fail)
           ELSE Ret(k.p, edSign(k.r.v, message)) :
           k \in {keyEd(p, 0)} })

\* verify(signature, message) { return this.key().verify(message, signature); }
verifyEd(p, signature, message) ==
  TheOne({ IF ~k.r.ok THEN Ret(k.p, Fail)
           ELSE Ret(k.p, edVerify(k.r.v, message, signature)) :
           k \in {keyEd(p, 0)} })

\* ---- how deep key() and the public-bytes accessor call each other
\* The nesting at which a call of key() on p stops descending: 0 when key()
\* has its value or builds it from the fields it reads, 1 when the accessor
\* it calls has its value, above StackLimit when the stack is used up.  A
\* call that raises stores nothing, so every nested call sees the same p.
RECURSIVE keyCallDepth(_, _, _)
keyCallDepth(p, rev, depth) ==
  IF \/ p._key.set
     \/ depth > StackLimit
     \/ (IF p.type = "secp256k1" /\ rev = "class"
         THEN Get(p, "seedBytes") # Undef ELSE hasPrivateKey(p))
  THEN depth
  ELSE IF \/ depth + 1 > StackLimit
          \/ (IF p.type = "secp256k1" /\ rev = "class"
              THEN p._pubKeyCanonicalBytes ELSE p._publicBytes) # Undef
  THEN depth + 1
  ELSE keyCallDepth(p, rev, depth + 2)

\* ------------------------------------------------ KeyPair (base class)
\* The methods a variant inherits or overrides; a virtual method raises.
publicBytesOf(p, rev) ==
  IF p.type = "ed25519" THEN publicBytesEd(p, 0)
  ELSE IF rev = "class" THEN Ret(p, Fail)
  ELSE publicBytesExt(p, rev, 0)

privateBytesOf(p, rev) ==
  IF p.type = "ed25519" THEN privateBytesEd(p)
  ELSE IF rev = "class" THEN Ret(p, Fail)
  ELSE privateBytesExt(p, rev)

signOf(p, rev, message) ==
  IF p.type = "ed25519" THEN signEd(p, message)
  ELSE IF rev = "class" THEN signClass(p, message)
  ELSE signExt(p, rev, message)

\* pair.verify(a, b): the arguments go to the variant's parameters by position.
verifyOf(p, rev, a, b) ==
  IF p.type = "ed25519" THEN verifyEd(p, a, b)
  ELSE IF rev = "class" THEN verifyClass(p, a, b)
  ELSE verifyExt(p, rev, a, b)

\* pair.sign and pair.verify in the environment e: only K256Pair of the
\* revision "node" reads it.
signIn(p, rev, e, message) ==
  IF rev = "node" /\ p.type = "secp256k1" THEN signNode(p, e, message)
  ELSE signOf(p, rev, message)

verifyIn(p, rev, e, a, b) ==
  IF rev = "node" /\ p.type = "secp256k1" THEN verifyNode(p, e, a, b)
  ELSE verifyOf(p, rev, a, b)

\* seed(): codec.encodeSeed(this._seedBytes, this.type); the codec raises
\* on a pair without seed bytes.
pairSeed(p) ==
  IF p._seedBytes = Undef THEN Ret(p, Fail)
  ELSE Ret(p, Ok(encodeSeed(p._seedBytes, p.type)))

Absent == Arr(Undef)
NoJson == [publicKey |-> Absent, seed |-> Absent, privateKey |-> Absent, id |-> Absent]

\* toJSON of src/src/keypair.js reads this.validator, that of part_005
\* this.is_node_key.
toJSONWith(p, rev, pb, prb) ==
  LET flag == RootFlag(p, rev)
      hasSeed == p._seedBytes # Undef
      hasPrivate == hasSeed \/ pb.p._privateBytes # Undef
  IN  IF ~pb.r.ok THEN [p |-> pb.p, ok |-> FALSE, json |-> NoJson]
      ELSE IF ~prb.r.ok THEN [p |-> prb.p, ok |-> FALSE, json |-> NoJson]
      ELSE [p |-> prb.p, ok |-> TRUE,
            json |->
              [publicKey |-> IF flag THEN encodeNodePublic(pb.r.v)
                             ELSE bytesToHex(pb.r.v),
               seed |-> IF hasSeed THEN encodeSeed(p._seedBytes, p.type) ELSE Absent,
               privateKey |-> IF hasPrivate THEN bytesToHex(prb.r.v) ELSE Absent,
               id |-> IF flag THEN Absent
                      ELSE encodeAccountID(deriveAccountIDBytes(pb.r.v))]]

\* privateBytes() runs on the pair publicBytes() left, and only when the
\* pair has a private key.
toJSONAfter(p, rev, pb) ==
  TheOne({ toJSONWith(p, rev, pb, prb) :
             prb \in { IF ~pb.r.ok THEN Ret(pb.p, Fail)
                       ELSE IF hasPrivateKey(pb.p) THEN privateBytesOf(pb.p, rev)
                       ELSE Ret(pb.p, Ok(<<>>)) } })

toJSON(p, rev) ==
  TheOne({ toJSONAfter(q, rev, pb) : q \in {p}, pb \in {publicBytesOf(p, rev)} })

\* ------------------------------------------------------------- index.js
NoOpts == [validator |-> FALSE, node |-> FALSE]

\* K256Pair.fromSeed: {seedBytes, validator: opts.validator}, and in the
\* revision "node" {seedBytes, node: opts.node}.
K256fromSeed(rev, seedBytes, opts) ==
  NewPair(rev, "secp256k1", seedBytes, Undef, Undef, opts.validator, opts.node)

EdfromSeed(rev, seedBytes) ==
  NewPair(rev, "ed25519", seedBytes, Undef, Undef, FALSE, FALSE)

\* pairContructor(type).fromPublic(key); the class of revision "class" has
\* no static fromPublic and no fromPrivate: the call raises.
fromPublic(rev, type, key) ==
  IF type = "ed25519"
    THEN Ok(NewPair(rev, type, Undef, parseBytes(key), Undef, FALSE, FALSE))
  ELSE IF rev = "class" THEN Fail
  ELSE TheOne({ IF ~b.ok THEN Fail
                ELSE Ok(NewPair(rev, "secp256k1", Undef, b.v, Undef, FALSE, FALSE)) :
                b \in {parsePublicKey(key)} })

\* A fromPrivate that passes the bytes as seedBytes.
fromPrivateMutant(rev, type, key) ==
  IF type # "ed25519" /\ rev = "class" THEN Fail
  ELSE Ok(NewPair(rev, IF type = "ed25519" THEN type ELSE "secp256k1",
                  parseBytes(key), Undef, Undef, FALSE, FALSE))

fromPrivate(rev, type, key) ==
  IF type # "ed25519" /\ rev = "class" THEN Fail
  ELSE Ok(NewPair(rev, IF type = "ed25519" THEN type ELSE "secp256k1",
                  Undef, Undef, parseBytes(key), FALSE, FALSE))

keyPairFromPublic(rev, publicKey) ==
  TheOne({ IF ~key.ok THEN Fail ELSE fromPublic(rev, key.type, Arr(key.bytes)) :
           key \in {parseKey(publicKey)} })

keyPairFromPrivate(rev, privateKey) ==
  TheOne({ IF ~key.ok THEN Fail ELSE fromPrivate(rev, key.type, Arr(key.bytes)) :
           key \in {parseKey(privateKey)} })

\* assert(type === secp256k1 || type === ed25519);
\* pairContructor(type).fromSeed(seed, options)
fromSeed(rev, bytes, type, opts) ==
  IF type \notin {"secp256k1", "ed25519"} THEN Fail
  ELSE IF type = "ed25519" THEN Ok(EdfromSeed(rev, bytes))
  ELSE Ok(K256fromSeed(rev, bytes, opts))

\* A keyPairFromSeed that lets the second argument choose the type of a
\* seed string.
keyPairFromSeedMutant(rev, seed, type, opts) ==
  IF seed.str
  THEN TheOne({ IF ~decoded.ok THEN Fail
                ELSE fromSeed(rev, decoded.bytes,
                              IF type = "" THEN decoded.type ELSE type, opts) :
                decoded \in {decodeSeed(seed)} })
  ELSE fromSeed(rev, seed.d, IF type = "" THEN "secp256k1" ELSE type, opts)

\* keyPairFromSeed(seed, type, options): for a string the second argument is
\* the options and the type is the decoded one; "" is an omitted type.
keyPairFromSeed(rev, seed, type, opts) ==
  IF seed.str
  THEN TheOne({ IF ~decoded.ok THEN Fail
                ELSE fromSeed(rev, decoded.bytes, decoded.type, opts) :
                decoded \in {decodeSeed(seed)} })
  ELSE fromSeed(rev, seed.d, IF type = "" THEN "secp256k1" ELSE type, opts)

Raised == [ok |-> FALSE, json |-> NoJson]
Returned(j) == [ok |-> j.ok, json |-> j.json]

deriveAccountKeys(rev, seedBytes, type) ==
  TheOne({ IF ~pr.ok THEN Raised ELSE Returned(toJSON(pr.v, rev)) :
           pr \in {keyPairFromSeed(rev, Arr(seedBytes), type, NoOpts)} })

\* K256Pair.fromSeed(seedBytes, {node: true}).toJSON()
deriveNodeKeys(rev, seedBytes) ==
  Returned(toJSON(K256fromSeed(rev, seedBytes, [validator |-> FALSE, node |-> TRUE]),
                  rev))

accountKeysFromSeed(rev, seed, seedType) ==
  TheOne({ IF ~s.ok THEN Raised ELSE deriveAccountKeys(rev, s.bytes, s.type) :
           s \in {parseSeed(seed, seedType)} })

accountKeysFromPhrase(rev, phrase, seedType) ==
  deriveAccountKeys(rev, seedFromPhrase(phrase), seedType)

\* opts.entropy || brorand(16): either way 16 bytes.
generateNodeKeys(rev, entropy) == deriveNodeKeys(rev, entropy)

nodeKeysFromSeed(rev, seed, seedType) ==
  TheOne({ IF ~s.ok \/ s.type # "secp256k1" THEN Raised
           ELSE deriveNodeKeys(rev, s.bytes) :
           s \in {parseSeed(seed, seedType)} })

nodeKeysFromPhrase(rev, phrase) == deriveNodeKeys(rev, seedFromPhrase(phrase))

nodePublicAccountID(publicKey) ==
  TheOne({ IF ~generatorBytes.ok THEN Fail
           ELSE TheOne({ IF ~accountPublicBytes.ok THEN Fail
                         ELSE Ok(encodeAccountID(
                                   deriveAccountIDBytes(accountPublicBytes.v)).d) :
                         accountPublicBytes \in
                           {accountPublicFromPublicGenerator(generatorBytes.v)} }) :
           generatorBytes \in {parsePublicKey(publicKey)} })

\* sign(message, privateKey)
indexSign(rev, e, message, privateKey) ==
  TheOne({ IF ~pr.ok THEN Fail ELSE signIn(pr.v, rev, e, message).r :
           pr \in {keyPairFromPrivate(rev, privateKey)} })

\* verify(signature, message, publicKey)
indexVerify(rev, e, signature, message, publicKey) ==
  TheOne({ IF ~pr.ok THEN Fail ELSE verifyIn(pr.v, rev, e, signature, message).r :
           pr \in {keyPairFromPublic(rev, publicKey)} })

\* --------------------------------------------------------------- api.js
NoKeypair == [ok |-> FALSE, privateKey |-> Absent, publicKey |-> Absent]

\* '00' + deriveSecret(entropy, options).toString(16, 64): the 32 bytes of
\* the secret as hex digits; elliptic reads the text back as a number.
apiSecpDeriveKeypair(entropy, validator, accountIndex) ==
  TheOne({ IF ~secret.ok THEN NoKeypair
           ELSE TheOne({
                  TheOne({ IF ~pub.ok THEN NoKeypair
                           ELSE [ok |-> TRUE, privateKey |-> Str(privateKey),
                                 publicKey |-> bytesToHex(pub.v)] :
                           pub \in {encodeCompressed(ecKeyFromPrivate(
                                      BNmod(hexPairs(privateKey), CurveOrder)).pub)} }) :
                  privateKey \in {<<0, 0>> \o bytesToHexSeq(toArray(secret.v, ScalarLen))} }) :
           secret \in {deriveSecret(entropy, validator, accountIndex)} })

apiEdDeriveKeypair(entropy) ==
  TheOne({ [ok |-> TRUE,
            privateKey |-> Str(<<14, 13>> \o bytesToHexSeq(rawPrivateKey)),
            publicKey |-> Str(<<14, 13>> \o
                              bytesToHexSeq(edPubBytes(edKeyFromSecret(rawPrivateKey))))] :
           rawPrivateKey \in {first256(add(Sha512New, entropy))} })

\* deriveKeypair(seed, options)
apiDeriveKeypair(seed, validator, accountIndex) ==
  TheOne({ IF ~decoded.ok THEN NoKeypair
           ELSE IF decoded.type = "ed25519" THEN apiEdDeriveKeypair(decoded.bytes)
           ELSE apiSecpDeriveKeypair(decoded.bytes, validator, accountIndex) :
           decoded \in {decodeSeed(seed)} })

apiSecpSign(message, privateKey) ==
  TheOne({ IF ~bytes.ok THEN Fail
           ELSE TheOne({ IF ~sig.ok THEN Fail ELSE Ok(bytesToHex(sig.v).d) :
                         sig \in {ecSign(ecKeyFromPrivate(BNmod(bytes.v, CurveOrder)),
                                         sha512Slice(message, ScalarLen))} }) :
           bytes \in {hexToBytes(privateKey)} })

\* key.verify(digest, signature): elliptic reads the hex string itself.
apiSecpVerify(signature, message, publicKey) ==
  TheOne({ IF ~bytes.ok THEN Fail
           ELSE TheOne({ IF ~key.ok THEN Fail
                         ELSE ecVerify(key.v, sha512Slice(message, ScalarLen),
                                       parseBytes(signature)) :
                         key \in {ecKeyFromPublic(bytes.v)} }) :
           bytes \in {hexToBytes(publicKey)} })

apiEdSign(message, privateKey) ==
  TheOne({ IF ~bytes.ok THEN Fail
           ELSE TheOne({ IF ~sig.ok THEN Fail ELSE Ok(bytesToHex(sig.v).d) :
                         sig \in {edSign(edKeyFromSecret(slice1(bytes.v)), message)} }) :
           bytes \in {hexToBytes(privateKey)} })

apiEdVerify(signature, message, publicKey) ==
  TheOne({ IF ~bytes.ok \/ ~sig.ok THEN Fail
           ELSE edVerify(edKeyFromPublic(slice1(bytes.v)), message, sig.v) :
           bytes \in {hexToBytes(publicKey)}, sig \in {hexToBytes(signature)} })

\* sign(message, privateKey): select(getAlgorithmFromKey(privateKey)).sign
apiSign(message, privateKey) ==
  TheOne({ IF ~algorithm.ok THEN Fail
           ELSE IF algorithm.type = "ed25519" THEN apiEdSign(message, privateKey)
           ELSE apiSecpSign(message, privateKey) :
           algorithm \in {getAlgorithmFromKey(privateKey)} })

\* verify(signature, message, publicKey)
apiVerify(signature, message, publicKey) ==
  TheOne({ IF ~algorithm.ok THEN Fail
           ELSE IF algorithm.type = "ed25519"
                THEN apiEdVerify(signature, message, publicKey)
           ELSE apiSecpVerify(signature, message, publicKey) :
           algorithm \in {getAlgorithmFromKey(publicKey)} })

\* A generateSeed that encodes the entropy as it came.
generateSeedMutant(entropy, algorithm, random) ==
  IF entropy # Undef /\ Len(entropy) < SeedLen THEN Fail
  ELSE Ok(encodeSeed(IF entropy # Undef THEN entropy ELSE random,
                     IF algorithm = "" THEN "secp256k1" ELSE algorithm))

\* generateSeed(options): assert(!options.entropy || options.entropy.length
\* >= 16), options.entropy.slice(0, 16) or brorand(16), and
\* options.algorithm || 'secp256k1'.  `random` is what brorand(16) returns;
\* "" is an omitted algorithm.
generateSeed(entropy, algorithm, random) ==
  IF entropy # Undef /\ Len(entropy) < SeedLen THEN Fail
  ELSE Ok(encodeSeed(IF entropy # Undef THEN SubSeq(entropy, 1, SeedLen) ELSE random,
                     IF algorithm = "" THEN "secp256k1" ELSE algorithm))

\* An isValidAddress without the try/catch.
isValidAddressMutant(address) ==
  TheOne({ IF ~bytes.ok THEN Fail ELSE Ok(Len(bytes.v) = AccountIdLen) :
           bytes \in {decodeAccountID(address)} })

\* isValidAddress(address): try { decodeAccountID(address).length === 20 }
\* catch (error) { return false; }
isValidAddress(address) ==
  TheOne({ IF ~bytes.ok THEN Ok(FALSE) ELSE Ok(Len(bytes.v) = AccountIdLen) :
           bytes \in {decodeAccountID(address)} })

\* ------------------------------------------------------------- inputs
Seeds == {toArray(s, SeedLen) : s \in 0..MaxSeed}
Messages == {<<m>> : m \in 0..MaxMsg}
Phrases == {<<m>> : m \in 0..MaxMsg}
Types == {"secp256k1", "ed25519"}
Discrims == {NoDiscrim, 0, 1}

\* The keys of a seed, as the derivations above give them.
SecpScalar(seed, root) == deriveSecret(seed, root, NoDiscrim).v
SecpPrivateBytes(seed, root) == toArray(SecpScalar(seed, root), ScalarLen)
SecpPublicBytes(seed, root) == encodeCompressed(gMul(SecpScalar(seed, root))).v
EdPrivateBytes(seed) == <<EdPrefix>> \o deriveEdKeyPairPrivate(seed)
EdPublicBytes(seed) ==
  <<EdPrefix>> \o edPubBytes(edKeyFromSecret(deriveEdKeyPairPrivate(seed)))

PrivateBytesOfSeed(seed, type) ==
  IF type = "ed25519" THEN EdPrivateBytes(seed) ELSE SecpPrivateBytes(seed, FALSE)
PublicBytesOfSeed(seed, type) ==
  IF type = "ed25519" THEN EdPublicBytes(seed) ELSE SecpPublicBytes(seed, FALSE)

\* The signature of a seed's key over a message, as the libraries make it.
SignatureOfSeed(seed, type, message) ==
  IF type = "ed25519"
  THEN edSign(edKeyFromSecret(deriveEdKeyPairPrivate(seed)), message).v
  ELSE ecSign(ecKeyFromPrivate(SecpScalar(seed, FALSE)), hashMessage(message)).v

\* Malformed inputs: empty, wrong length, a point that does not decode.
BadPublicKeys ==
  { <<2>> \o toArray(200, ScalarLen), <<3>> \o toArray(7, ScalarLen - 1),
    <<EdPrefix>> \o toArray(255, ScalarLen) }
BadSignatures ==
  { <<>>, toArray(255, ScalarLen) \o Zeros(ScalarLen), <<7>> \o Zeros(ScalarLen + 1) }

PrivateKeys == {PrivateBytesOfSeed(s, t) : s \in Seeds, t \in Types}
PublicKeys == {PublicBytesOfSeed(s, t) : s \in Seeds, t \in Types} \cup BadPublicKeys
Signatures ==
  {SignatureOfSeed(s, t, m) : s \in Seeds, t \in Types, m \in Messages}
  \cup BadSignatures

\* Hex text of a key, and the text with its last digit cut off.
HexOf(bytes) == bytesToHex(bytes)
OddHexOf(bytes) == Str(SubSeq(bytesToHexSeq(bytes), 1, 2 * Len(bytes) - 1))

\* The private key text deriveKeypair gives: '00' or 'ED' and 64 digits.
ApiPrivateKeyOfSeed(seed, type) ==
  IF type = "ed25519" THEN HexOf(EdPrivateBytes(seed))
  ELSE Str(<<0, 0>> \o bytesToHexSeq(SecpPrivateBytes(seed, FALSE)))
ApiPrivateKeys == {ApiPrivateKeyOfSeed(s, t) : s \in Seeds, t \in Types}
ApiPublicKeys ==
  {HexOf(k) : k \in PublicKeys} \cup {OddHexOf(PublicBytesOfSeed(s, t)) : s \in Seeds, t \in Types}
ApiSignatures ==
  {HexOf(g) : g \in Signatures} \cup {OddHexOf(SignatureOfSeed(s, "ed25519", <<0>>)) : s \in Seeds}

\* Keys of every shape the sniffing rule tells apart.
KeyShapes ==
  {<<f>> \o Zeros(n - 1) : f \in {0, 2, 3, EdPrefix, EdPrefix + 1},
                           n \in {KeyLen - 1, KeyLen, KeyLen + 1}}
KeyTexts ==
  {HexOf(k) : k \in KeyShapes} \cup {OddHexOf(k) : k \in KeyShapes}
  \cup {HexOf(PublicBytesOfSeed(s, t)) : s \in Seeds, t \in Types}
KeyValues ==
  KeyTexts \cup {Arr(k) : k \in KeyShapes}
  \cup {encodeNodePublic(SecpPublicBytes(s, TRUE)) : s \in Seeds}

\* A seed whose offset for account 1 is the order minus its private generator.
CancellingSeed == toArray(169, SeedLen)

ScalarInputs ==
  Seeds \cup {SecpPublicBytes(s, TRUE) : s \in Seeds}
  \cup {<<b>> : b \in 0..MaxScalarByte}

SeedStrings == {encodeSeed(s, t) : s \in Seeds, t \in Types}
BadSeedString == Str(<<CharS, 0, 1>>)
SeedValues == SeedStrings \cup {Arr(s) : s \in Seeds} \cup {BadSeedString}
\* options.entropy of generateSeed: absent, too short, 16 bytes and longer
Entropies ==
  {Undef, <<>>, Zeros(SeedLen - 1)}
  \cup {s \o tail : s \in Seeds, tail \in {<<>>, <<7>>, <<0, 9>>}}

\* Addresses: the account ids of the seeds, and texts the codec rejects (a
\* payload of 19 and of 21 bytes, a wrong check digit, a seed string, no
\* string at all).
AccountIdOfSeed(s, t) == deriveAccountIDBytes(PublicBytesOfSeed(s, t))
BadAddresses ==
  {encode(CharR, <<>>, Zeros(AccountIdLen - 1)),
   encode(CharR, <<>>, Zeros(AccountIdLen + 1)),
   Str(<<CharR>> \o bytesToHexSeq(Zeros(AccountIdLen))
       \o <<(Checksum(Zeros(AccountIdLen)) + 1) % 16>>),
   encodeSeed(Zeros(SeedLen), "secp256k1"),
   Str(<<>>), Arr(Zeros(AccountIdLen)), Absent}
Addresses ==
  {encodeAccountID(AccountIdOfSeed(s, t)) : s \in Seeds, t \in Types}
  \cup BadAddresses

NodePublicKeys ==
  {encodeNodePublic(SecpPublicBytes(s, TRUE)) : s \in Seeds}
  \cup {HexOf(SecpPublicBytes(s, TRUE)) : s \in Seeds}
  \cup {HexOf(k) : k \in BadPublicKeys}

\* --------------------------------------------------------------- state
\* linked  the K256Pair revision the build links
\* env     process.env.USE_SECP256K1_SPEEDUP and whether require('secp256k1')
\*         succeeds; only the revision "node" reads it
\* pair    the key pair object the caller holds
\* origin  how the caller built `pair`: the factory, its argument, the type
\*         of the pair it returned and whether the options asked for a root
\*         key (history of the calls, no code reads it)
\* last    the last call and what it returned
VARIABLES linked, env, pair, origin, last
vars == <<linked, env, pair, origin, last>>

NoLast ==
  [op |-> "init", ok |-> TRUE, bool |-> FALSE, out |-> Absent, json |-> NoJson,
   a |-> Absent, b |-> Absent, c |-> Absent, n |-> 0, d |-> 0, i |-> 0,
   t |-> "", flag |-> FALSE]

\* process.env.USE_SECP256K1_SPEEDUP other than 'true' ("off"), 'true' with
\* the native module installed ("on"), 'true' without it ("missing").
Envs == {"off", "on", "missing"}

Origin(how, arg, type, root) == [how |-> how, arg |-> arg, type |-> type, root |-> root]

Init ==
  /\ linked \in Revisions
  /\ env \in (IF linked = "node" THEN Envs ELSE {"off"})
  /\ pair = K256fromSeed(linked, toArray(0, SeedLen), NoOpts)
  /\ origin = Origin("seed", toArray(0, SeedLen), "secp256k1", FALSE)
  /\ last = NoLast

\* ------------------------------------------- key pair objects (Spec)
\* keyPairFromSeed(seed, type, options) on seed bytes, and
\* keyPairFromSeed(seed, second) on a seed string, where the second
\* argument is the options when `opts` has a flag set and `type` (a string,
\* whose properties read as undefined) otherwise.
KeyPairFromSeed(seed, type, opts) ==
  \E pr \in {keyPairFromSeed(linked, seed, type, opts)} :
  /\ pair' = IF pr.ok THEN pr.v ELSE pair
  /\ last' = [NoLast EXCEPT !.op = "keyPairFromSeed", !.ok = pr.ok,
                            !.a = seed, !.t = type]
  /\ origin' = IF pr.ok
               THEN Origin("seed", pr.v._seedBytes, pr.v.type,
                           opts.validator \/ opts.node)
               ELSE origin
  /\ UNCHANGED <<linked, env>>

KeyPairFromPrivate(key) ==
  \E pr \in {keyPairFromPrivate(linked, Arr(key))} :
  /\ pair' = IF pr.ok THEN pr.v ELSE pair
  /\ last' = [NoLast EXCEPT !.op = "keyPairFromPrivate", !.ok = pr.ok, !.a = Arr(key)]
  /\ origin' = IF pr.ok THEN Origin("private", key, pr.v.type, FALSE) ELSE origin
  /\ UNCHANGED <<linked, env>>

KeyPairFromPublic(key) ==
  \E pr \in {keyPairFromPublic(linked, Arr(key))} :
  /\ pair' = IF pr.ok THEN pr.v ELSE pair
  /\ last' = [NoLast EXCEPT !.op = "keyPairFromPublic", !.ok = pr.ok, !.a = Arr(key)]
  /\ origin' = IF pr.ok THEN Origin("public", key, pr.v.type, FALSE) ELSE origin
  /\ UNCHANGED <<linked, env>>

PairSign(message) ==
  \E x \in {signIn(pair, linked, env, message)} :
  /\ pair' = x.p
  /\ last' = [NoLast EXCEPT !.op = "pair.sign", !.ok = x.r.ok,
                            !.out = Arr(x.r.v), !.a = Arr(message)]
  /\ UNCHANGED <<linked, env, origin>>

\* pair.verify(signature, message), as the tests and index.js call it
PairVerify(signature, message) ==
  \E x \in {verifyIn(pair, linked, env, signature, message)} :
  /\ pair' = x.p
  /\ last' = [NoLast EXCEPT !.op = "pair.verify", !.ok = x.r.ok,
                            !.bool = (x.r.ok /\ x.r.v),
                            !.a = Arr(signature), !.b = Arr(message)]
  /\ UNCHANGED <<linked, env, origin>>

PairPublicBytes ==
  \E x \in {publicBytesOf(pair, linked)} :
  /\ pair' = x.p
  /\ last' = [NoLast EXCEPT !.op = "pair.publicBytes", !.ok = x.r.ok, !.out = Arr(x.r.v)]
  /\ UNCHANGED <<linked, env, origin>>

PairPrivateBytes ==
  \E x \in {privateBytesOf(pair, linked)} :
  /\ pair' = x.p
  /\ last' = [NoLast EXCEPT !.op = "pair.privateBytes", !.ok = x.r.ok, !.out = Arr(x.r.v)]
  /\ UNCHANGED <<linked, env, origin>>

PairToJSON ==
  \E x \in {toJSON(pair, linked)} :
  /\ pair' = x.p
  /\ last' = [NoLast EXCEPT !.op = "pair.toJSON", !.ok = x.ok, !.json = x.json]
  /\ UNCHANGED <<linked, env, origin>>

\* pair.seed(): cached, encodeSeed(this._seedBytes, this.type).  The slot
\* _seed is not kept: _seedBytes and type never change.
PairSeed ==
  \E x \in {pairSeed(pair)} :
  /\ pair' = x.p
  /\ last' = [NoLast EXCEPT !.op = "pair.seed", !.ok = x.r.ok,
                            !.out = IF x.r.ok THEN x.r.v ELSE Absent]
  /\ UNCHANGED <<linked, env, origin>>

Next ==
  \/ \E s \in Seeds, t \in Types \cup {""}, v \in BOOLEAN :
       KeyPairFromSeed(Arr(s), t, [validator |-> v, node |-> v])
  \/ KeyPairFromSeed(Arr(Zeros(SeedLen)), "rsa", NoOpts)
  \/ KeyPairFromSeed(BadSeedString, "", NoOpts)
  \/ \E s \in SeedStrings, t \in Types : KeyPairFromSeed(s, t, NoOpts)
  \/ \E k \in PrivateKeys : KeyPairFromPrivate(k)
  \/ \E k \in PublicKeys : KeyPairFromPublic(k)
  \/ \E m \in Messages : PairSign(m)
  \/ \E g \in Signatures, m \in Messages : PairVerify(g, m)
  \/ PairPublicBytes
  \/ PairPrivateBytes
  \/ PairToJSON
  \/ PairSeed

Spec == Init /\ [][Next]_vars

\* --------------------------------------- top-level functions (SpecTop)
\* The exported functions keep no state between calls: a behaviour of
\* SpecTop is one call, on arguments drawn from the input sets.
NotCalled == last.op = "init"

\* index.js sign(message, privateKey)
IndexSign(message, privateKey) ==
  /\ NotCalled
  /\ \E r \in {indexSign(linked, env, message, Arr(privateKey))} :
       last' = [NoLast EXCEPT !.op = "index.sign", !.ok = r.ok, !.out = Arr(r.v),
                                 !.a = Arr(message), !.b = Arr(privateKey)]
  /\ UNCHANGED <<linked, env, pair, origin>>

\* index.js verify(signature, message, publicKey)
IndexVerify(signature, message, publicKey) ==
  /\ NotCalled
  /\ \E r \in {indexVerify(linked, env, signature, message, Arr(publicKey))} :
       last' = [NoLast EXCEPT !.op = "index.verify", !.ok = r.ok,
                                 !.bool = (r.ok /\ r.v), !.a = Arr(signature),
                                 !.b = Arr(message), !.c = Arr(publicKey)]
  /\ UNCHANGED <<linked, env, pair, origin>>

DeriveNodeKeys(seed) ==
  /\ NotCalled
  /\ \E j \in {deriveNodeKeys(linked, seed)} :
       last' = [NoLast EXCEPT !.op = "deriveNodeKeys", !.ok = j.ok, !.json = j.json,
                                 !.a = Arr(seed)]
  /\ UNCHANGED <<linked, env, pair, origin>>

\* generateNodeKeys({entropy})
GenerateNodeKeys(entropy) ==
  /\ NotCalled
  /\ \E j \in {generateNodeKeys(linked, entropy)} :
       last' = [NoLast EXCEPT !.op = "generateNodeKeys", !.ok = j.ok, !.json = j.json,
                                 !.a = Arr(entropy)]
  /\ UNCHANGED <<linked, env, pair, origin>>

NodeKeysFromSeed(seed, seedType) ==
  /\ NotCalled
  /\ \E j \in {nodeKeysFromSeed(linked, seed, seedType)} :
       last' = [NoLast EXCEPT !.op = "nodeKeysFromSeed", !.ok = j.ok, !.json = j.json,
                                 !.a = seed, !.t = seedType]
  /\ UNCHANGED <<linked, env, pair, origin>>

NodeKeysFromPhrase(phrase) ==
  /\ NotCalled
  /\ \E j \in {nodeKeysFromPhrase(linked, phrase)} :
       last' = [NoLast EXCEPT !.op = "nodeKeysFromPhrase", !.ok = j.ok, !.json = j.json,
                                 !.a = Arr(phrase)]
  /\ UNCHANGED <<linked, env, pair, origin>>

AccountKeysFromSeed(seed, seedType) ==
  /\ NotCalled
  /\ \E j \in {accountKeysFromSeed(linked, seed, seedType)} :
       last' = [NoLast EXCEPT !.op = "accountKeysFromSeed", !.ok = j.ok, !.json = j.json,
                                 !.a = seed, !.t = seedType]
  /\ UNCHANGED <<linked, env, pair, origin>>

NodePublicAccountID(publicKey) ==
  /\ NotCalled
  /\ \E r \in {nodePublicAccountID(publicKey)} :
       last' = [NoLast EXCEPT !.op = "nodePublicAccountID", !.ok = r.ok,
                                 !.out = Str(r.v), !.a = publicKey]
  /\ UNCHANGED <<linked, env, pair, origin>>

\* api.js deriveKeypair(seed, {validator, accountIndex})
ApiDeriveKeypair(seed, validator, accountIndex) ==
  /\ NotCalled
  /\ \E k \in {apiDeriveKeypair(seed, validator, accountIndex)} :
       last' = [NoLast EXCEPT !.op = "api.deriveKeypair", !.ok = k.ok,
                                 !.json = [NoJson EXCEPT !.publicKey = k.publicKey,
                                                         !.privateKey = k.privateKey],
                                 !.a = seed, !.flag = validator, !.d = accountIndex]
  /\ UNCHANGED <<linked, env, pair, origin>>

ApiSign(message, privateKey) ==
  /\ NotCalled
  /\ \E r \in {apiSign(message, privateKey)} :
       last' = [NoLast EXCEPT !.op = "api.sign", !.ok = r.ok, !.out = Str(r.v),
                                 !.a = Arr(message), !.b = privateKey]
  /\ UNCHANGED <<linked, env, pair, origin>>

ApiVerify(signature, message, publicKey) ==
  /\ NotCalled
  /\ \E r \in {apiVerify(signature, message, publicKey)} :
       last' = [NoLast EXCEPT !.op = "api.verify", !.ok = r.ok,
                                 !.bool = (r.ok /\ r.v), !.a = signature,
                                 !.b = Arr(message), !.c = publicKey]
  /\ UNCHANGED <<linked, env, pair, origin>>

GetAlgorithmFromKey(key) ==
  /\ NotCalled
  /\ \E r \in {getAlgorithmFromKey(key)} :
       last' = [NoLast EXCEPT !.op = "getAlgorithmFromKey", !.ok = r.ok,
                                 !.t = r.type, !.a = key]
  /\ UNCHANGED <<linked, env, pair, origin>>

ParseKey(key) ==
  /\ NotCalled
  /\ \E r \in {parseKey(key)} :
       last' = [NoLast EXCEPT !.op = "parseKey", !.ok = r.ok, !.t = r.type,
                                 !.out = Arr(r.bytes), !.a = key]
  /\ UNCHANGED <<linked, env, pair, origin>>

DeriveScalar(bytes, discrim) ==
  /\ NotCalled
  /\ \E r \in {deriveScalar(bytes, discrim)} :
       last' = [NoLast EXCEPT !.op = "deriveScalar", !.ok = r.ok,
                                 !.n = IF r.ok THEN r.v ELSE 0,
                                 !.i = attemptsFrom(bytes, discrim, 0),
                                 !.a = Arr(bytes), !.d = discrim]
  /\ UNCHANGED <<linked, env, pair, origin>>

DeriveSecret(seed, root, accountIndex) ==
  /\ NotCalled
  /\ \E r \in {deriveSecret(seed, root, accountIndex)} :
       last' = [NoLast EXCEPT !.op = "deriveSecret", !.ok = r.ok,
                                 !.n = IF r.ok THEN r.v ELSE 0,
                                 !.a = Arr(seed), !.flag = root, !.d = accountIndex]
  /\ UNCHANGED <<linked, env, pair, origin>>

AccountPublicFromPublicGenerator(publicGenBytes) ==
  /\ NotCalled
  /\ \E r \in {accountPublicFromPublicGenerator(publicGenBytes)} :
       last' = [NoLast EXCEPT !.op = "accountPublicFromPublicGenerator", !.ok = r.ok,
                                 !.out = Arr(r.v), !.a = Arr(publicGenBytes)]
  /\ UNCHANGED <<linked, env, pair, origin>>

\* api.js generateSeed({entropy, algorithm}); brorand returns any 16 bytes
GenerateSeed(entropy, algorithm, random) ==
  /\ NotCalled
  /\ \E r \in {generateSeed(entropy, algorithm, random)} :
       last' = [NoLast EXCEPT !.op = "generateSeed", !.ok = r.ok,
                                 !.out = IF r.ok THEN r.v ELSE Absent,
                                 !.a = Arr(entropy), !.t = algorithm]
  /\ UNCHANGED <<linked, env, pair, origin>>

\* api.js isValidAddress(address)
IsValidAddress(address) ==
  /\ NotCalled
  /\ \E r \in {isValidAddress(address)} :
       last' = [NoLast EXCEPT !.op = "isValidAddress", !.ok = r.ok,
                                 !.bool = (r.ok /\ r.v), !.a = address]
  /\ UNCHANGED <<linked, env, pair, origin>>

NextTop ==
  \/ \E m \in Messages, k \in PrivateKeys : IndexSign(m, k)
  \/ \E g \in Signatures, m \in Messages, k \in PublicKeys : IndexVerify(g, m, k)
  \/ \E s \in Seeds : DeriveNodeKeys(s)
  \/ \E s \in Seeds : GenerateNodeKeys(s)
  \/ \E s \in SeedValues, t \in Types \cup {""} : NodeKeysFromSeed(s, t)
  \/ \E ph \in Phrases : NodeKeysFromPhrase(ph)
  \/ \E s \in SeedValues, t \in Types \cup {""} : AccountKeysFromSeed(s, t)
  \/ \E k \in NodePublicKeys : NodePublicAccountID(k)
  \/ \E s \in SeedStrings \cup {BadSeedString}, v \in BOOLEAN, x \in Discrims :
       ApiDeriveKeypair(s, v, x)
  \/ \E m \in Messages, k \in ApiPrivateKeys : ApiSign(m, k)
  \/ \E g \in ApiSignatures, m \in Messages, k \in ApiPublicKeys : ApiVerify(g, m, k)
  \/ \E k \in KeyTexts : GetAlgorithmFromKey(k)
  \/ \E k \in KeyValues : ParseKey(k)
  \/ \E b \in ScalarInputs, d \in Discrims : DeriveScalar(b, d)
  \/ \E s \in Seeds \cup {CancellingSeed}, r \in BOOLEAN, x \in Discrims :
       DeriveSecret(s, r, x)
  \/ \E s \in Seeds : AccountPublicFromPublicGenerator(SecpPublicBytes(s, TRUE))
  \/ \E k \in BadPublicKeys : AccountPublicFromPublicGenerator(k)
  \/ \E b \in Entropies, t \in Types \cup {""}, r \in Seeds : GenerateSeed(b, t, r)
  \/ \E x \in Addresses : IsValidAddress(x)

SpecTop == Init /\ [][NextTop]_vars

\* ---------------------------------------------------------- properties
BuiltWithPrivate ==
  hasPrivateKey(pair) /\ (pair._key.set => pair._key.priv # -1)

\* C1: a key pair with private material signs every message, and verifies
\* its own signature over that message and over no other message.
\* (A pair built from a seed or a private key: hasPrivateKey() holds and the
\* key, once made, holds a private scalar; privateBytes() of a public-only
\* pair fills the slot _privateBytes too.)
C1_SignVerify ==
  /\ (last.op = "pair.sign" /\ BuiltWithPrivate) => last.ok
  /\ (last.op = "pair.verify" /\ BuiltWithPrivate) =>
       \A M \in Messages :
         signOf(pair, linked, M).r = Ok(last.a.d)
           => (last.ok /\ last.bool = (last.b.d = M))

\* C2: the top-level sign makes the signature of the algorithm of the key,
\* and the top-level verify accepts it over the signed message under the
\* public key of the same seed and rejects it over another message.
C2_TopLevelSignVerify ==
  \A s \in Seeds, t \in Types :
    /\ (last.op = "index.sign" /\ last.b = Arr(PrivateBytesOfSeed(s, t)))
         => (last.ok /\ last.out = Arr(SignatureOfSeed(s, t, last.a.d)))
    /\ (last.op = "index.verify" /\ last.c = Arr(PublicBytesOfSeed(s, t)))
         => \A M \in Messages :
              last.a = Arr(SignatureOfSeed(s, t, M))
                => (last.ok /\ last.bool = (last.b.d = M))
    /\ (last.op = "api.sign" /\ last.b = ApiPrivateKeyOfSeed(s, t))
         => (last.ok /\ last.out = HexOf(SignatureOfSeed(s, t, last.a.d)))
    /\ (last.op = "api.verify" /\ last.c = HexOf(PublicBytesOfSeed(s, t)))
         => \A M \in Messages :
              last.a = HexOf(SignatureOfSeed(s, t, M))
                => (last.ok /\ last.bool = (last.b.d = M))

\* C3: the top-level verify returns a boolean for every signature and every
\* public key, and false for a malformed one.
C3_VerifyNeverRaises ==
  /\ last.op \in {"index.verify", "api.verify"} => last.ok
  /\ (last.op = "index.verify"
        /\ (last.a.d \in BadSignatures \/ last.c.d \in BadPublicKeys)) => ~last.bool
  /\ (last.op = "api.verify"
        /\ (last.a \notin {HexOf(SignatureOfSeed(s, t, m)) :
                             s \in Seeds, t \in Types, m \in Messages}
            \/ last.c \notin {HexOf(PublicBytesOfSeed(s, t)) :
                                s \in Seeds, t \in Types})) => ~last.bool

\* C4: Ed25519Pair.verify returns a boolean for every signature and message,
\* whatever the public key of the pair.
C4_EdVerifyNeverRaises ==
  (last.op = "pair.verify" /\ pair.type = "ed25519") => last.ok

\* C5: no call of K256Pair.verify ends in an exception, and a call given a
\* malformed signature or holding an undecodable key returns false.
C5_K256VerifyTotal ==
  (last.op = "pair.verify" /\ pair.type = "secp256k1") =>
    /\ last.ok
    /\ (last.a.d \in BadSignatures \/ Get(pair, "_publicBytes") \in BadPublicKeys)
         => ~last.bool

C5_CaughtError ==
  /\ last.op = "pair.verify" /\ pair.type = "secp256k1" /\ linked # "class"
  /\ last.a.d \in BadSignatures
  /\ last.ok /\ ~last.bool

\* C6: a key is ed25519 exactly when its decoded bytes are 33 long and start
\* with 0xED, and getAlgorithmFromKey and parseKey classify every key text
\* alike.
C6_SameClassification ==
  /\ (last.op = "parseKey" /\ last.ok) =>
       (last.t = "ed25519"
          <=> (Len(last.out.d) = KeyLen /\ last.out.d[1] = EdPrefix))
  /\ (last.op = "getAlgorithmFromKey" /\ last.ok) =>
       (last.t = "ed25519"
          <=> \E k \in KeyShapes \cup PublicKeys :
                last.a = HexOf(k) /\ Len(k) = KeyLen /\ k[1] = EdPrefix)
  /\ last.op = "getAlgorithmFromKey" =>
       (last.ok /\ parseKey(last.a).ok /\ last.t = parseKey(last.a).type)
  /\ (last.op = "parseKey" /\ last.a \in KeyTexts) =>
       (last.ok /\ getAlgorithmFromKey(last.a) = [ok |-> TRUE, type |-> last.t])

\* The seed bytes a node-keys entry point was called with.
SeedOfCall ==
  IF last.op = "nodeKeysFromPhrase" THEN seedFromPhrase(last.a.d)
  ELSE IF last.a.str THEN decodeSeed(last.a).bytes
  ELSE last.a.d

\* C7: a node-keys entry point that returns, returns the root key of the
\* seed: the private generator as private key, the public key in node-public
\* form and no id; nodeKeysFromSeed fails for a seed tagged ed25519.
C7_NodeKeysRootPath ==
  /\ (last.op \in {"deriveNodeKeys", "generateNodeKeys",
                   "nodeKeysFromSeed", "nodeKeysFromPhrase"} /\ last.ok) =>
       /\ last.json.privateKey =
            bytesToHex(toArray(deriveScalar(SeedOfCall, NoDiscrim).v, ScalarLen))
       /\ last.json.publicKey =
            encodeNodePublic(
              encodeCompressed(gMul(deriveScalar(SeedOfCall, NoDiscrim).v)).v)
       /\ last.json.id = Absent
  /\ (last.op = "nodeKeysFromSeed"
        /\ \/ (last.a.str /\ decodeSeed(last.a).type # "secp256k1")
           \/ (~last.a.str /\ last.t = "ed25519")) => ~last.ok

\* C8: a scalar deriveScalar returns lies strictly between 0 and the order
\* of the curve, whatever the bytes and the discriminator.
C8_ScalarInRange ==
  (last.op = "deriveScalar" /\ last.ok) => (0 < last.n /\ last.n < CurveOrder)

C8_RetryTaken ==
  last.op = "deriveScalar" /\ last.ok /\ last.i > 0

\* C9: the scalar derived with the root flag differs from the scalar derived
\* for account 0 of the same seed without the flag.
C9_RootDiffersFromAccountZero ==
  (last.op = "deriveSecret" /\ last.ok) =>
    /\ last.flag =>
         \A x \in {NoDiscrim, 0} : deriveSecret(last.a.d, FALSE, x) # Ok(last.n)
    /\ (~last.flag /\ last.d \in {NoDiscrim, 0}) =>
         deriveSecret(last.a.d, TRUE, last.d) # Ok(last.n)

C9_RootDerived ==
  last.op = "deriveSecret" /\ last.ok /\ last.flag

\* C10: accountPublicFromPublicGenerator of the public generator of a seed
\* is the public key of account 0 of the seed, and nodePublicAccountID of
\* the node public key is the id of the account keys.
C10_AccountPublicFromGenerator ==
  \A s \in Seeds :
    /\ (last.op = "accountPublicFromPublicGenerator"
          /\ last.a = Arr(SecpPublicBytes(s, TRUE)))
         => (last.ok /\ last.out = Arr(SecpPublicBytes(s, FALSE)))
    /\ (last.op = "nodePublicAccountID"
          /\ last.a \in {encodeNodePublic(SecpPublicBytes(s, TRUE)),
                         HexOf(SecpPublicBytes(s, TRUE))})
         => (last.ok /\ last.out = encodeAccountID(
                          deriveAccountIDBytes(SecpPublicBytes(s, FALSE))))
    /\ (last.op = "accountKeysFromSeed" /\ last.ok
          /\ last.a \in {Arr(s), encodeSeed(s, "secp256k1")}
          /\ (last.a.str \/ last.t # "ed25519"))
         => Ok(last.json.id.d) =
              nodePublicAccountID(encodeNodePublic(SecpPublicBytes(s, TRUE)))

C10_NodePublicIdDerived ==
  /\ last.op = "nodePublicAccountID" /\ last.ok
  /\ \E s \in Seeds : last.a = encodeNodePublic(SecpPublicBytes(s, TRUE))

C13_HasPrivateKeyFixed ==
  hasPrivateKey(pair) <=> origin.how \in {"seed", "private"}

\* C12: on a pair built from public bytes only, sign raises and returns no
\* signature, for both variants, and verify still accepts the signature
\* the owner of the key made.
C12_PublicOnlyCannotSign ==
  origin.how = "public" =>
    /\ last.op = "pair.sign" => ~last.ok
    /\ \A s \in Seeds, m \in Messages :
         (/\ last.op = "pair.verify"
          /\ origin.arg = PublicBytesOfSeed(s, origin.type)
          /\ last.a = Arr(SignatureOfSeed(s, origin.type, m))
          /\ last.b = Arr(m))
           => last.bool

\* C14: toJSON() returns, and its object always has publicKey, in the
\* node-public text form exactly for a root (validator) pair and in hex
\* otherwise; it has seed exactly when the pair was built from a seed,
\* privateKey exactly when the pair was built with private material (seed
\* or private bytes), and id exactly when the pair is not a root pair.
RootPair == origin.how = "seed" /\ origin.root /\ origin.type = "secp256k1"

C14_ToJSONFields ==
  last.op = "pair.toJSON" =>
    /\ last.ok
    /\ last.json.publicKey # Absent
    /\ decodeNodePublic(last.json.publicKey).ok <=> RootPair
    /\ last.json.seed # Absent <=> origin.how = "seed"
    /\ last.json.privateKey # Absent <=> origin.how \in {"seed", "private"}
    /\ last.json.id # Absent <=> ~RootPair

\* C15: the private key encoding a pair derived from a seed hands out has
\* 33 bytes, a leading 0x00 and the 32-byte scalar for secp256k1, a leading
\* 0xED and the 32-byte secret for ed25519, whether it comes from
\* privateBytes() or, as hex, from privateHex() in toJSON().privateKey.
PrivateEncoding(b, type) ==
  Len(b) = KeyLen /\ b[1] = (IF type = "ed25519" THEN EdPrefix ELSE 0)

C15_PrivateKeyEncoding ==
  origin.how = "seed" =>
    /\ (last.op = "pair.privateBytes" /\ last.ok)
         => PrivateEncoding(last.out.d, origin.type)
    /\ (last.op = "pair.toJSON" /\ last.ok)
         => PrivateEncoding(parseBytes(last.json.privateKey), origin.type)

C17_GenerateSeed ==
  last.op = "generateSeed" =>
    /\ last.ok <=> (last.a.d = Undef \/ Len(last.a.d) >= SeedLen)
    /\ last.ok =>
         \A decoded \in {decodeSeed(last.out)} :
           /\ decoded.ok
           /\ decoded.type = (IF last.t = "" THEN "secp256k1" ELSE last.t)
           /\ Len(decoded.bytes) = SeedLen
           /\ last.a.d # Undef => decoded.bytes = SubSeq(last.a.d, 1, SeedLen)

C17_LongEntropyCut ==
  last.op = "generateSeed" /\ last.ok /\ last.a.d # Undef /\ Len(last.a.d) > SeedLen

\* C18: isValidAddress never raises; it returns true exactly when the codec
\* decodes the address and the decoded account id has 20 bytes, so it
\* accepts the address of every account and rejects every text the codec
\* rejects.
C18_IsValidAddress ==
  last.op = "isValidAddress" =>
    /\ last.ok
    /\ last.bool <=> \E bytes \in {decodeAccountID(last.a)} :
                       bytes.ok /\ Len(bytes.v) = AccountIdLen
    /\ (\E s \in Seeds, t \in Types :
          last.a = encodeAccountID(AccountIdOfSeed(s, t))) => last.bool
    /\ last.a \in BadAddresses => ~last.bool

C18_RejectedShortAddress ==
  /\ last.op = "isValidAddress" /\ last.ok /\ ~last.bool
  /\ last.a = encode(CharR, <<>>, Zeros(AccountIdLen - 1))

SameAsReference ==
  /\ last'.op = "pair.sign" =>
       \A ref \in {signExt(pair, "node", last'.a.d).r} :
         last'.ok = ref.ok /\ (ref.ok => last'.out = Arr(ref.v))
  /\ last'.op = "pair.verify" =>
       \A ref \in {verifyExt(pair, "node", last'.a.d, last'.b.d).r} :
         last'.ok = ref.ok /\ (ref.ok => last'.bool = ref.v)

C20_SwitchKeepsResults ==
  [][(linked = "node" /\ pair.type = "secp256k1") => SameAsReference]_vars


\* The private generator of a seed, and the scalar of one of its accounts.
PrivateGenerator(seed) == deriveScalar(seed, NoDiscrim).v
AccountOffset(seed, index) ==
  deriveScalar(encodeCompressed(gMul(PrivateGenerator(seed))).v, index).v

\* C21: the secp256k1 private scalar of a seed is the private generator
\* deriveScalar(seed) for a root derivation, and otherwise
\* (deriveScalar(compressed(G * generator), accountIndex) + generator) mod
\* the order, where an omitted accountIndex counts as 0 and each account
\* index is passed as its own discriminator.
C21_PrivateScalar ==
  last.op = "deriveSecret" =>
    /\ last.ok
    /\ last.n = IF last.flag THEN PrivateGenerator(last.a.d)
                ELSE (AccountOffset(last.a.d, IF last.d = NoDiscrim THEN 0
                                              ELSE last.d)
                        + PrivateGenerator(last.a.d)) % CurveOrder

\* An account other than account 0 was derived, and its scalar is not the
\* scalar of account 0.
C21_AccountOneDerived ==
  /\ last.op = "deriveSecret" /\ last.ok /\ ~last.flag /\ last.d = 1
  /\ deriveSecret(last.a.d, FALSE, 0) # Ok(last.n)


\* The hash input of attempt i: the bytes, the discriminator as a
\* big-endian u32 when one was passed, the counter as a big-endian u32.
AttemptInput(bytes, discrim, i) ==
  bytes \o (IF discrim = NoDiscrim THEN <<>> ELSE U32(discrim)) \o U32(i)

\* C22: deriveScalar(bytes, discrim) returns the candidate of the smallest
\* counter whose candidate is in range; the candidate of counter i is the
\* leading 256 bits of the hash of the bytes, then the discriminator as a
\* big-endian u32 exactly when one was passed (0 included), then i as a
\* big-endian u32, whatever the earlier attempts hashed.
C22_SmallestCounterCandidate ==
  (last.op = "deriveScalar" /\ last.ok) =>
    /\ last.i \in 0..CounterMax
    /\ last.n = Digest(AttemptInput(last.a.d, last.d, last.i))
    /\ InRange(last.n)
    /\ \A j \in 0..(last.i - 1) :
         ~InRange(Digest(AttemptInput(last.a.d, last.d, j)))

\* A call with discriminator 0 that needed a second attempt and returned
\* another scalar than the call without discriminator.
C22_ZeroDiscriminatorHashed ==
  /\ last.op = "deriveScalar" /\ last.ok /\ last.d = 0 /\ last.i > 0
  /\ deriveScalar(last.a.d, NoDiscrim) # Ok(last.n)


\* --------------------------------------- deriveScalar, attempt by attempt
\* The for loop of deriveScalar one iteration per step.  last.i is the loop
\* variable, last.a and last.d the arguments; last.t names the hash the
\* environment supplies: "" is the hash chain, "stuck" a broken hash whose
\* digest is all zero bits (last.flag FALSE) or all one bits (TRUE) whatever
\* it is fed, the fault the final throw guards against.
StuckDigest(high) == IF high THEN HashSpace - 1 ELSE 0

AttemptKey(kind, high, bytes, discrim, i) ==
  IF kind = "stuck" THEN StuckDigest(high) ELSE Candidate(bytes, discrim, i)

\* A counter of 32 bits: 0xFFFFFFFF + 1 wraps to 0.
NextCounterMutant(i) == (i + 1) % (CounterMax + 1)

\* i++ on a JavaScript number: 0xFFFFFFFF + 1 is 0x100000000.
NextCounter(i) == i + 1

\* deriveScalar(bytes, discrim) is entered: let i = 0
LoopEnter(bytes, discrim, kind, high) ==
  /\ NotCalled
  /\ last' = [NoLast EXCEPT !.op = "deriveScalar:loop", !.a = Arr(bytes),
                            !.d = discrim, !.t = kind, !.flag = high]
  /\ UNCHANGED <<linked, env, pair, origin>>

\* One iteration: i <= 0xFFFFFFFF, hash, range test, return or i++
LoopAttempt ==
  /\ last.op = "deriveScalar:loop"
  /\ last.i <= CounterMax
  /\ \E key \in {AttemptKey(last.t, last.flag, last.a.d, last.d, last.i)} :
       last' = IF InRange(key)
               THEN [last EXCEPT !.op = "deriveScalar", !.ok = TRUE, !.n = key]
               ELSE [last EXCEPT !.i = NextCounter(last.i)]
  /\ UNCHANGED <<linked, env, pair, origin>>

\* The loop condition fails: throw new Error('impossible unicorn ;)')
LoopThrow ==
  /\ last.op = "deriveScalar:loop"
  /\ last.i > CounterMax
  /\ last' = [last EXCEPT !.op = "deriveScalar", !.ok = FALSE]
  /\ UNCHANGED <<linked, env, pair, origin>>

NextLoop ==
  \/ \E b \in ScalarInputs, d \in Discrims : LoopEnter(b, d, "", FALSE)
  \/ \E b \in Seeds, d \in Discrims, high \in BOOLEAN : LoopEnter(b, d, "stuck", high)
  \/ LoopAttempt
  \/ LoopThrow

\* The call is synchronous: once entered, the loop runs until it returns or
\* throws, nothing can suspend it.
SpecLoop ==
  Init /\ [][NextLoop]_vars /\ WF_vars(LoopAttempt) /\ WF_vars(LoopThrow)

\* C23: deriveScalar terminates.  It tries the counters 0..0xFFFFFFFF in
\* turn and no other, returns at the first candidate in range (never a
\* candidate out of range), and throws when every counter of the counter
\* space was rejected.
C23_DeriveScalarTerminates ==
  /\ [](last.op = "deriveScalar:loop" => last.i \in 0..(CounterMax + 1))
  /\ [](last.op = "deriveScalar" =>
          IF last.ok
          THEN /\ InRange(last.n)
               /\ last.i \in 0..CounterMax
               /\ last.t = "" => deriveScalar(last.a.d, last.d) = Ok(last.n)
          ELSE /\ last.i = CounterMax + 1
               /\ last.t = "stuck")
  /\ (last.op = "deriveScalar:loop") ~> (last.op = "deriveScalar")

\* Every counter of the counter space was rejected and the call threw.
C23_CounterSpaceExhausted ==
  last.op = "deriveScalar" /\ ~last.ok /\ last.i = CounterMax + 1


FreshPair ==
  IF origin.how = "seed"
  THEN keyPairFromSeed(linked, Arr(origin.arg), origin.type,
                       [validator |-> origin.root, node |-> origin.root]).v
  ELSE IF origin.how = "private"
  THEN keyPairFromPrivate(linked, Arr(origin.arg)).v
  ELSE keyPairFromPublic(linked, Arr(origin.arg)).v

\* C25: memoization never changes outputs.  Whatever calls were made on a
\* key pair before, publicBytes(), privateBytes(), toJSON(), sign() and
\* verify() return what the same call returns on a fresh pair built from
\* the same constructor inputs.
C25_MemoNeverChangesOutputs ==
  \A fresh \in {FreshPair} :
    /\ last.op = "pair.publicBytes" =>
         \A x \in {publicBytesOf(fresh, linked).r} :
           last.ok = x.ok /\ (x.ok => last.out = Arr(x.v))
    /\ last.op = "pair.privateBytes" =>
         \A x \in {privateBytesOf(fresh, linked).r} :
           last.ok = x.ok /\ (x.ok => last.out = Arr(x.v))
    /\ last.op = "pair.toJSON" =>
         \A x \in {toJSON(fresh, linked)} :
           last.ok = x.ok /\ (x.ok => last.json = x.json)
    /\ last.op = "pair.sign" =>
         \A x \in {signIn(fresh, linked, env, last.a.d).r} :
           last.ok = x.ok /\ (x.ok => last.out = Arr(x.v))
    /\ last.op = "pair.verify" =>
         \A x \in {verifyIn(fresh, linked, env, last.a.d, last.b.d).r} :
           last.ok = x.ok /\ (x.ok => last.bool = x.v)


\* The pair of `origin` with cached methods that store nothing: every call
\* on it computes from the constructor's fields.
RecomputingPair == FreshPair @@ [recomputes |-> TRUE]

\* C26: memoization is not load-bearing.  The key pair with memoizing
\* accessors returns the same publicBytes, privateBytes, identifier,
\* signatures and verification results as a pair built the same way (from
\* a seed, from private bytes, from public bytes) whose cached methods
\* recompute on every call.
C26_MemoNotLoadBearing ==
  \A ref \in {RecomputingPair} :
    /\ last.op = "pair.publicBytes" =>
         \A x \in {publicBytesOf(ref, linked)} :
           x.p = ref /\ last.ok = x.r.ok /\ (x.r.ok => last.out = Arr(x.r.v))
    /\ last.op = "pair.privateBytes" =>
         \A x \in {privateBytesOf(ref, linked)} :
           x.p = ref /\ last.ok = x.r.ok /\ (x.r.ok => last.out = Arr(x.r.v))
    /\ last.op = "pair.toJSON" =>
         \A x \in {toJSON(ref, linked)} :
           x.p = ref /\ last.ok = x.ok /\ (x.ok => last.json.id = x.json.id)
    /\ last.op = "pair.sign" =>
         \A x \in {signIn(ref, linked, env, last.a.d)} :
           x.p = ref /\ last.ok = x.r.ok /\ (x.r.ok => last.out = Arr(x.r.v))
    /\ last.op = "pair.verify" =>
         \A x \in {verifyIn(ref, linked, env, last.a.d, last.b.d)} :
           x.p = ref /\ last.ok = x.r.ok /\ (x.r.ok => last.bool = x.r.v)


\* C27: on a key pair built with seed bytes, private bytes or public bytes,
\* key() and the public-bytes accessor it uses do not call each other
\* without bound: a sign or verify that calls key() never uses up the stack.
C27_KeyCallsBounded ==
  [][ (/\ last'.op \in {"pair.sign", "pair.verify"}
       /\ ~(linked = "node" /\ pair.type = "secp256k1" /\ speedup(env)))
        => keyCallDepth(pair, linked, 0) <= StackLimit ]_vars

====
